---------------------------- MODULE Spec2Model ----------------------------
(***************************************************************************)
(* A model of go-zero's adaptive load shedder (core/load/adaptiveshedder.go)*)
(* and of the rolling window it is built on                                *)
(* (core/collection/rollingwindow.go).                                     *)
(*                                                                         *)
(* Time is a duration in milliseconds (timex.Now() is a time.Duration      *)
(* since process start); the clock advances in steps drawn from ClockSteps.*)
(* float64 bucket sums are integers here: every value the shedder adds is  *)
(* integral (math.Ceil of an rt, or 1).                                    *)
(***************************************************************************)
EXTENDS Integers, Sequences, FiniteSets, TLC

VARIABLES
    now,        \* timex.Now(): the monotonic clock, in ms
    rw,         \* a stand-alone collection.RollingWindow
    rwAdded,    \* per bucket of rw: when its oldest sample since its last reset was added (-1: none)
    rwRed,      \* what the Reduce call that just returned did with rw
    cpu,        \* stat.CpuUsage(): the CPU load the sampler reports, per mille
    windows,    \* adaptiveShedder.windows: buckets per second
    flying,     \* adaptiveShedder.flying
    avgFlying,  \* adaptiveShedder.avgFlying, in units of 1/AvgScale
    dropTime,   \* adaptiveShedder.dropTime
    droppedRecently, \* adaptiveShedder.droppedRecently
    passCounter,     \* adaptiveShedder.passCounter
    rtCounter,       \* adaptiveShedder.rtCounter
    promises,   \* the start times of the promises Allow returned and nobody completed yet
    pc,         \* per thread: where it is in Allow, Pass or Fail
    loc,        \* per thread: the local variables of the call it is in
    shedTime,   \* the latest dropTime set by an Allow that has returned ErrServiceOverloaded (-1: none)
    calls,      \* how many calls of Allow, Pass and Fail were made, in the runs that bound their number
    completed,  \* Pass or Fail was called on the shedder
    enabled,    \* the package's enabled flag, which Disable clears
    shedder,    \* what NewAdaptiveShedder returned: "adaptive", "nop", or "none" before it is called
    locks,      \* per lock of the shedder: who holds it, in the runs that take locks step by step
    leLastTime, \* a stand-alone LessExecutor's lastTime
    leThreshold,\* its threshold
    leExecuted, \* the clock readings at which its execute functions started, in order
    lePc,       \* per thread: where it is in DoOrDiscard
    leLoc       \* per thread: DoOrDiscard's locals now and lastTime

rwVars == <<rw, rwAdded, rwRed>>

asVars == <<cpu, windows, flying, avgFlying, dropTime, droppedRecently,
            passCounter, rtCounter, promises, pc, loc, shedTime, calls, completed>>

killVars == <<enabled, shedder>>

leVars == <<leLastTime, leThreshold, leExecuted, lePc, leLoc>>

extraVars == <<killVars, locks, leVars>>

vars == <<now, rwVars, asVars, extraVars>>

----------------------------------------------------------------------------
(* Bounds of the model.                                                    *)

\* The stand-alone window's clock stops advancing here (ms).
MaxNow == 3000

\* The shedder's clock stops advancing here (ms).
ShedMaxNow == 1250

\* Allow is not called while more than this many requests are in flight.
MaxFlying == 2

\* Concurrent runs make at most this many calls of Allow, Pass and Fail.
MaxCalls == 3

\* The same, where flying is held at 10.
HoldFlying == 10

\* Add is not called on a bucket that already holds this many samples.
MaxCount == 1

\* The clock reading at construction (ms).
StartTimes == {250}

\* How far the clock moves in one step (ms): the stand-alone window's, the shedder's.
ClockSteps == {250}

ShedClockSteps == {500}

\* The threads that call Allow, Pass and Fail; the one that does in sequential runs.
Threads == {1, 2}

SeqThreads == {1}

\* What stat.CpuUsage() reports.
CpuLoads == {0, 950}

\* The options (WithWindow in ms, WithBuckets) shedders are built with.
Options == [window |-> 2000, buckets |-> 2]

HoldOptions == [window |-> 1000, buckets |-> 2]

\* Before the model starts, admitted requests were admitted and then failed of
\* them failed, all at the clock reading of construction (0, 0: a fresh shedder).
Bursts == {[admitted |-> 0, failed |-> 0], [admitted |-> 10, failed |-> 8]}

\* The values Add is called with in the stand-alone window.
AddValues == {1, 2}

\* (size, interval in ms, ignoreCurrent) of the stand-alone windows built.
RWConfigs ==
    {<<1, 500, FALSE>>, <<2, 750, FALSE>>, <<2, 750, TRUE>>,
     <<3, 500, FALSE>>, <<3, 500, TRUE>>}

----------------------------------------------------------------------------
(* core/collection/rollingwindow.go                                        *)

Min(a, b) == IF a < b THEN a ELSE b

Max(a, b) == IF a > b THEN a ELSE b

\* Bucket.reset / new(Bucket)
EmptyBucket == [Sum |-> 0, Count |-> 0]

\* func (b *Bucket) add(v float64)
BucketAdd(b, v) == [Sum |-> b.Sum + v, Count |-> b.Count + 1]

\* A faulty newWindow: one bucket too many.
newWindowOneMore(size) == [i \in 0 .. size |-> EmptyBucket]

\* func newWindow(size int) *window: buckets[0 .. size-1]
newWindow(size) == [i \in 0 .. size - 1 |-> EmptyBucket]

\* func NewRollingWindow(size, interval, opts...): lastTime is timex.Now()
NewRollingWindow(size, interval, ignoreCurrent, t) ==
    [size |-> size, win |-> newWindow(size), interval |-> interval,
     offset |-> 0, ignoreCurrent |-> ignoreCurrent, lastTime |-> t]

\* timex.Since(d)
Since(d, t) == t - d

\* func (rw *RollingWindow) span() int, at clock reading t
span(w, t) ==
    LET offset == Since(w.lastTime, t) \div w.interval
    IN  IF 0 <= offset /\ offset < w.size THEN offset ELSE w.size

\* A faulty updateOffset: the second loop, which resets the buckets past the
\* end of the ring, is left out.
resetIndicesNoWrap(w, s) ==
    LET start == w.offset + 1
        steps == Min(start + s, w.size)
    IN  {i % w.size : i \in start .. steps - 1}

\* The bucket indices the two reset loops of updateOffset pass to
\* window.resetBucket (which takes them modulo size).
resetIndices(w, s) ==
    LET start == w.offset + 1
        stepsRaw == start + s
        remainder == IF stepsRaw > w.size THEN stepsRaw - w.size ELSE 0
        steps == IF stepsRaw > w.size THEN w.size ELSE stepsRaw
    IN  {i % w.size : i \in start .. steps - 1} \cup
        {i % w.size : i \in 0 .. remainder - 1}

\* func (rw *RollingWindow) updateOffset(), at clock reading t
updateOffset(w, t) ==
    LET s == span(w, t)
    IN  IF s <= 0 THEN w
        ELSE [w EXCEPT
                !.win = [i \in 0 .. w.size - 1 |->
                            IF i \in resetIndices(w, s) THEN EmptyBucket
                            ELSE w.win[i]],
                !.offset = (w.offset + s) % w.size,
                !.lastTime = t]

\* func (rw *RollingWindow) Add(v float64), at clock reading t
Add(w, v, t) ==
    LET u == updateOffset(w, t)
    IN  [u EXCEPT !.win[u.offset % u.size] = BucketAdd(u.win[u.offset % u.size], v)]

\* Reduce's diff: how many buckets it hands to window.reduce
reduceDiff(w, t) ==
    LET s == span(w, t)
    IN  IF s = 0 /\ w.ignoreCurrent THEN w.size - 1 ELSE w.size - s

\* A faulty start: the bucket after offset, whatever the span.
reduceStartNoSpan(w, t) == (w.offset + 1) % w.size

\* Reduce's offset: the first bucket it hands to window.reduce
reduceStart(w, t) == (w.offset + span(w, t) + 1) % w.size

\* func (w *window) reduce(start, count, fn): the indices of the buckets fn
\* is called on, in call order
windowReduce(w, start, count) ==
    [i \in 1 .. count |-> (start + (i - 1)) % w.size]

\* func (rw *RollingWindow) Reduce(fn): the indices of the buckets fn is
\* called on, in call order, at clock reading t
Reduce(w, t) ==
    IF reduceDiff(w, t) > 0
    THEN windowReduce(w, reduceStart(w, t), reduceDiff(w, t))
    ELSE <<>>

----------------------------------------------------------------------------
(* core/load/adaptiveshedder.go: constants and the pure parts.             *)

\* time.Millisecond and time.Second, in the clock's unit
Millisecond == 1

Second == 1000

defaultCpuThreshold == 900

\* float64(time.Second / time.Millisecond)
defaultMinRt == 1000

\* coolOffDuration = time.Second
coolOffDuration == 1000

\* flyingBeta = 0.9, in tenths
flyingBetaTenths == 9

\* avgFlying is a float64; here it is kept to 1/AvgScale, rounded to nearest.
AvgScale == 10

\* A faulty systemOverloadChecker: the comparison is the wrong way round.
systemOverloadedBelow(c) == c <= defaultCpuThreshold

\* systemOverloadChecker: stat.CpuUsage() >= cpuThreshold
systemOverloaded(c) == c >= defaultCpuThreshold

\* addFlying, delta < 0: avgFlying*flyingBeta + float64(flying)*(1-flyingBeta),
\* with fl the value the atomic add returned
avgAfterDecrement(avg, fl) ==
    (avg * flyingBetaTenths + fl * AvgScale * (10 - flyingBetaTenths) + 5) \div 10

\* int64(avgFlying)
int64Avg(avg) == avg \div AvgScale

\* math.Round(a / b), a >= 0, b > 0
Round(a, b) == (2 * a + b) \div (2 * b)

\* math.Ceil(a / b), a >= 0, b > 0
Ceil(a, b) == (a + b - 1) \div b

\* maxPass's callback folded over the buckets Reduce visits, from result
RECURSIVE maxPassFold(_, _, _)
maxPassFold(w, visited, result) ==
    IF visited = <<>> THEN result
    ELSE maxPassFold(w, Tail(visited),
                     IF w.win[Head(visited)].Sum > result
                     THEN w.win[Head(visited)].Sum ELSE result)

\* func (as *adaptiveShedder) maxPass() int64, at clock reading t
maxPass(w, t) == maxPassFold(w, Reduce(w, t), 1)

\* A faulty minRt callback: it keeps the larger average.
RECURSIVE minRtFoldLarger(_, _, _)
minRtFoldLarger(w, visited, result) ==
    IF visited = <<>> THEN result
    ELSE LET b == w.win[Head(visited)]
         IN  minRtFoldLarger(w, Tail(visited),
                 IF b.Count <= 0 THEN result
                 ELSE IF Round(b.Sum, b.Count) > result THEN Round(b.Sum, b.Count)
                 ELSE result)

\* minRt's callback folded over the buckets Reduce visits, from result
RECURSIVE minRtFold(_, _, _)
minRtFold(w, visited, result) ==
    IF visited = <<>> THEN result
    ELSE LET b == w.win[Head(visited)]
         IN  minRtFold(w, Tail(visited),
                 IF b.Count <= 0 THEN result
                 ELSE IF Round(b.Sum, b.Count) < result THEN Round(b.Sum, b.Count)
                 ELSE result)

\* func (as *adaptiveShedder) minRt() float64, at clock reading t
minRt(w, t) == minRtFold(w, Reduce(w, t), defaultMinRt)

\* func (as *adaptiveShedder) maxFlight() int64, from what maxPass() and minRt()
\* A faulty maxFlight: math.Max(1, ...) is left out.
maxFlightNoFloor(mp, wins, rt) == (mp * wins * rt) \div 1000

\* returned: int64(math.Max(1, float64(maxPass*windows)*(minRt/1e3)))
maxFlight(mp, wins, rt) == Max(1, (mp * wins * rt) \div 1000)

\* A faulty highThru: the left operand of its && is left out.
avgOverMaxFlightSkipped(avg, mf) == TRUE

\* A faulty left operand of highThru's &&: >= for >.
avgOverMaxFlightGe(avg, mf) == int64Avg(avg) >= mf

\* highThru: int64(avgFlying) > maxFlight
avgOverMaxFlight(avg, mf) == int64Avg(avg) > mf

\* A faulty right operand of highThru's &&: >= for >.
flyingOverMaxFlightGe(fl, mf) == fl >= mf

\* highThru: atomic.LoadInt64(&as.flying) > maxFlight
flyingOverMaxFlight(fl, mf) == fl > mf

\* The rt Pass records: math.Ceil(float64(timex.Since(start)) / float64(time.Millisecond))
passRt(start, t) == Ceil(Since(start, t), Millisecond)

\* avgFlying after addFlying(-1) took flying from fl down to m, from avg
RECURSIVE afterFails(_, _, _)
afterFails(avg, fl, m) ==
    IF fl <= m THEN avg ELSE afterFails(avgAfterDecrement(avg, fl - 1), fl - 1, m)

----------------------------------------------------------------------------
(* Initial states.                                                         *)

NoReduce == [called |-> FALSE, visited |-> <<>>]

\* The locals of a thread that is in no call.
NoLocals == [phase |-> "cond", dt |-> 0, avg |-> 0, mp |-> 0, mf |-> 0, fl |-> 0, rt |-> 0]

\* No stand-alone window is in use.
RWUnused ==
    /\ rw = NewRollingWindow(1, 1, FALSE, 0)
    /\ rwAdded = [i \in 0 .. 0 |-> -1]
    /\ rwRed = NoReduce

\* func NewAdaptiveShedder(opts ...ShedderOption), then the burst n before the
\* clock moves.
NewAdaptiveShedder(o, n) ==
    LET bucketDuration == o.window \div o.buckets
    IN  /\ windows = Second \div bucketDuration
        /\ flying = n.admitted - n.failed
        /\ avgFlying = afterFails(0, n.admitted, n.admitted - n.failed)
        /\ dropTime = 0
        /\ droppedRecently = FALSE
        /\ passCounter = NewRollingWindow(o.buckets, bucketDuration, TRUE, now)
        /\ rtCounter = NewRollingWindow(o.buckets, bucketDuration, TRUE, now)
        /\ promises = [k \in 1 .. n.admitted - n.failed |-> now]
        /\ pc = [t \in Threads |-> "idle"]
        /\ loc = [t \in Threads |-> NoLocals]
        /\ shedTime = -1
        /\ calls = 0
        /\ completed = (n.failed > 0)
        /\ cpu = 0

\* The package's enabled flag is set and NewAdaptiveShedder has returned an
\* adaptive shedder; no lock is held; no LessExecutor is in use.
NoLocks == [l \in {"avgFlyingLock", "passCounter", "rtCounter"} |-> {}]

ExtraUnused ==
    /\ enabled = TRUE
    /\ shedder = "adaptive"
    /\ locks = NoLocks
    /\ leLastTime = 0
    /\ leThreshold = 0
    /\ leExecuted = <<>>
    /\ lePc = [t \in Threads |-> "idle"]
    /\ leLoc = [t \in Threads |-> [now |-> 0, lastTime |-> 0]]

InitRW ==
    /\ now \in StartTimes
    /\ ExtraUnused
    /\ \E c \in RWConfigs : rw = NewRollingWindow(c[1], c[2], c[3], now)
    /\ rwAdded = [i \in 0 .. rw.size - 1 |-> -1]
    /\ rwRed = NoReduce
    /\ NewAdaptiveShedder(Options, [admitted |-> 0, failed |-> 0])

Init ==
    /\ now \in StartTimes
    /\ ExtraUnused
    /\ RWUnused
    /\ \E n \in Bursts : NewAdaptiveShedder(Options, n)

InitHold ==
    /\ now \in StartTimes
    /\ ExtraUnused
    /\ RWUnused
    /\ \E n \in Bursts : NewAdaptiveShedder(HoldOptions, n)

----------------------------------------------------------------------------
(* The stand-alone rolling window: Add and Reduce at any clock reading.    *)

\* The clock advances.
RWTick ==
    /\ \E d \in ClockSteps : now + d <= MaxNow /\ now' = now + d
    /\ rwRed' = NoReduce
    /\ UNCHANGED <<rw, rwAdded, asVars, extraVars>>

\* rw.Add(v)
RWAdd ==
    /\ \E v \in AddValues :
         /\ Add(rw, v, now).win[Add(rw, v, now).offset].Count <= MaxCount
         /\ rw' = Add(rw, v, now)
    /\ rwAdded' = [i \in 0 .. rw.size - 1 |->
                     IF i \in resetIndices(rw, span(rw, now)) /\ span(rw, now) > 0
                     THEN (IF i = rw'.offset THEN now ELSE -1)
                     ELSE IF i = rw'.offset /\ rwAdded[i] = -1 THEN now
                     ELSE rwAdded[i]]
    /\ rwRed' = NoReduce
    /\ UNCHANGED <<now, asVars, extraVars>>

\* A faulty Reduce: it calls updateOffset first, as Add does.
RWReduceUpdates ==
    /\ rw' = updateOffset(rw, now)
    /\ rwRed' = [called |-> TRUE, visited |-> Reduce(rw', now)]
    /\ UNCHANGED <<now, rwAdded, asVars, extraVars>>

\* rw.Reduce(fn)
RWReduce ==
    /\ rwRed' = [called |-> TRUE, visited |-> Reduce(rw, now)]
    /\ UNCHANGED <<now, rw, rwAdded, asVars, extraVars>>

NextRW == RWTick \/ RWAdd \/ RWReduce

SpecRW == InitRW /\ [][NextRW]_vars

----------------------------------------------------------------------------
(* The shedder's calls, one action per access to shared state.  A thread   *)
(* is "idle" between calls; a critical section (the spin lock around       *)
(* avgFlying, a RollingWindow's lock) is one action.  The fmt.Sprintf of a *)
(* drop re-reads flying, avgFlying, CpuUsage, maxPass and minRt and changes*)
(* nothing with them, but takes the locks again; its stillHot() call may   *)
(* clear the latch.                                                        *)

AllowPcs == {"stillHot", "hotLoad", "hotSince", "hotClear", "highThru",
             "maxPass", "minRt", "loadFlying", "msgAvg", "msgMaxPass", "msgMinRt",
             "setDropTime", "setLatch", "admit"}

\* The requests in flight that no idle thread accounts for yet: the threads
\* that entered Allow and neither shed nor admitted.
Deciding == Cardinality({u \in Threads : pc[u] \in AllowPcs})

Goto(t, p, l) ==
    /\ pc' = [pc EXCEPT ![t] = p]
    /\ loc' = [loc EXCEPT ![t] = l]

\* promises without one promise that started at s
Without(s) ==
    LET i == CHOOSE k \in 1 .. Len(promises) : promises[k] = s
    IN  SubSeq(promises, 1, i - 1) \o SubSeq(promises, i + 1, Len(promises))

Starts == {promises[k] : k \in 1 .. Len(promises)}

\* The current bucket of passCounter holds fewer than n samples.
PassRoom(n) ==
    span(passCounter, now) > 0 \/ passCounter.win[passCounter.offset].Count < n

\* One more call is made, where the run bounds their number.
Called(b) ==
    /\ b.calls > 0 => calls < b.calls
    /\ calls' = IF b.calls > 0 THEN calls + 1 ELSE calls

\* stillHot() returns hot to its caller: shouldDrop's condition, or its message.
stillHotReturn(t, hot) ==
    IF loc[t].phase = "cond"
    THEN Goto(t, IF hot THEN "highThru" ELSE "admit", NoLocals)
    ELSE Goto(t, "setDropTime", NoLocals)

\* Allow -> shouldDrop -> systemOverloaded(): || evaluates stillHot() only if false
Allow_systemOverloaded(t, b) ==
    /\ shedder = "adaptive"
    /\ pc[t] = "idle"
    /\ flying + Deciding <= b.flying
    /\ Called(b)
    /\ Goto(t, IF systemOverloaded(cpu) THEN "highThru" ELSE "stillHot", NoLocals)
    /\ UNCHANGED <<now, rwVars, extraVars, completed, cpu, windows, flying, avgFlying, dropTime,
                   droppedRecently, passCounter, rtCounter, promises, shedTime>>

\* stillHot: if !as.droppedRecently.True() { return false }
stillHot_droppedRecently(t) ==
    /\ pc[t] = "stillHot"
    /\ IF droppedRecently THEN Goto(t, "hotLoad", loc[t]) ELSE stillHotReturn(t, FALSE)
    /\ UNCHANGED <<now, rwVars, extraVars, completed, cpu, windows, flying, avgFlying, dropTime,
                   droppedRecently, passCounter, rtCounter, promises, shedTime, calls>>

\* stillHot: dropTime := as.dropTime.Load(); if dropTime == 0 { return false }
stillHot_dropTime(t) ==
    /\ pc[t] = "hotLoad"
    /\ IF dropTime = 0 THEN stillHotReturn(t, FALSE)
       ELSE Goto(t, "hotSince", [loc[t] EXCEPT !.dt = dropTime])
    /\ UNCHANGED <<now, rwVars, extraVars, completed, cpu, windows, flying, avgFlying, dropTime,
                   droppedRecently, passCounter, rtCounter, promises, shedTime, calls>>

\* stillHot: hot := timex.Since(dropTime) < coolOffDuration
stillHot_Since(t) ==
    /\ pc[t] = "hotSince"
    /\ IF Since(loc[t].dt, now) < coolOffDuration THEN stillHotReturn(t, TRUE)
       ELSE Goto(t, "hotClear", [loc[t] EXCEPT !.dt = 0])
    /\ UNCHANGED <<now, rwVars, extraVars, completed, cpu, windows, flying, avgFlying, dropTime,
                   droppedRecently, passCounter, rtCounter, promises, shedTime, calls>>

\* A faulty stillHot: it returns false without clearing droppedRecently.
stillHot_SetNothing(t) ==
    /\ pc[t] = "hotClear"
    /\ stillHotReturn(t, FALSE)
    /\ UNCHANGED <<now, rwVars, extraVars, completed, cpu, windows, flying, avgFlying, dropTime,
                   droppedRecently, passCounter, rtCounter, promises, shedTime, calls>>

\* stillHot: if !hot { as.droppedRecently.Set(false) }; return hot
stillHot_Set(t) ==
    /\ pc[t] = "hotClear"
    /\ droppedRecently' = FALSE
    /\ stillHotReturn(t, FALSE)
    /\ UNCHANGED <<now, rwVars, extraVars, completed, cpu, windows, flying, avgFlying, dropTime,
                   passCounter, rtCounter, promises, shedTime, calls>>

\* highThru: avgFlying := as.avgFlying, under avgFlyingLock
highThru_avgFlying(t) ==
    /\ pc[t] = "highThru"
    /\ Goto(t, "maxPass", [NoLocals EXCEPT !.avg = avgFlying])
    /\ UNCHANGED <<now, rwVars, extraVars, completed, cpu, windows, flying, avgFlying, dropTime,
                   droppedRecently, passCounter, rtCounter, promises, shedTime, calls>>

\* highThru -> maxFlight -> maxPass(): passCounter.Reduce under its read lock
maxFlight_maxPass(t) ==
    /\ pc[t] = "maxPass"
    /\ Goto(t, "minRt", [loc[t] EXCEPT !.mp = maxPass(passCounter, now)])
    /\ UNCHANGED <<now, rwVars, extraVars, completed, cpu, windows, flying, avgFlying, dropTime,
                   droppedRecently, passCounter, rtCounter, promises, shedTime, calls>>

\* highThru -> maxFlight -> minRt(): rtCounter.Reduce under its read lock; then
\* the left operand of highThru's &&: int64(avgFlying) > maxFlight
maxFlight_minRt(t) ==
    /\ pc[t] = "minRt"
    /\ LET mf == maxFlight(loc[t].mp, windows, minRt(rtCounter, now))
       IN  IF avgOverMaxFlight(loc[t].avg, mf)
           THEN Goto(t, "loadFlying", [NoLocals EXCEPT !.mf = mf])
           ELSE Goto(t, "admit", NoLocals)
    /\ UNCHANGED <<now, rwVars, extraVars, completed, cpu, windows, flying, avgFlying, dropTime,
                   droppedRecently, passCounter, rtCounter, promises, shedTime, calls>>

\* highThru: the right operand, atomic.LoadInt64(&as.flying) > maxFlight; on
\* true shouldDrop builds its message and returns true
highThru_flying(t) ==
    /\ pc[t] = "loadFlying"
    /\ IF flyingOverMaxFlight(flying, loc[t].mf)
       THEN Goto(t, "msgAvg", NoLocals)
       ELSE Goto(t, "admit", NoLocals)
    /\ UNCHANGED <<now, rwVars, extraVars, completed, cpu, windows, flying, avgFlying, dropTime,
                   droppedRecently, passCounter, rtCounter, promises, shedTime, calls>>

\* shouldDrop, for its message: flying := atomic.LoadInt64(&as.flying);
\* avgFlying := as.avgFlying, under avgFlyingLock
shouldDrop_avgFlying(t) ==
    /\ pc[t] = "msgAvg"
    /\ Goto(t, "msgMaxPass", NoLocals)
    /\ UNCHANGED <<now, rwVars, extraVars, completed, cpu, windows, flying, avgFlying, dropTime,
                   droppedRecently, passCounter, rtCounter, promises, shedTime, calls>>

\* shouldDrop, for its message: stat.CpuUsage(), as.maxPass()
shouldDrop_maxPass(t) ==
    /\ pc[t] = "msgMaxPass"
    /\ Goto(t, "msgMinRt", NoLocals)
    /\ UNCHANGED <<now, rwVars, extraVars, completed, cpu, windows, flying, avgFlying, dropTime,
                   droppedRecently, passCounter, rtCounter, promises, shedTime, calls>>

\* shouldDrop, for its message: as.minRt(), then as.stillHot()
shouldDrop_minRt(t) ==
    /\ pc[t] = "msgMinRt"
    /\ Goto(t, "stillHot", [NoLocals EXCEPT !.phase = "msg"])
    /\ UNCHANGED <<now, rwVars, extraVars, completed, cpu, windows, flying, avgFlying, dropTime,
                   droppedRecently, passCounter, rtCounter, promises, shedTime, calls>>

\* A faulty Allow: it sets the latch where it should store dropTime.
Allow_latchFirst(t) ==
    /\ pc[t] = "setDropTime"
    /\ droppedRecently' = TRUE
    /\ Goto(t, "setLatch", [NoLocals EXCEPT !.dt = now])
    /\ UNCHANGED <<now, rwVars, extraVars, completed, cpu, windows, flying, avgFlying,
                   dropTime, passCounter, rtCounter, promises, shedTime, calls>>

\* Allow: as.dropTime.Set(timex.Now())
Allow_dropTime(t) ==
    /\ pc[t] = "setDropTime"
    /\ dropTime' = now
    /\ Goto(t, "setLatch", [NoLocals EXCEPT !.dt = now])
    /\ UNCHANGED <<now, rwVars, extraVars, completed, cpu, windows, flying, avgFlying,
                   droppedRecently, passCounter, rtCounter, promises, shedTime, calls>>

\* Allow: as.droppedRecently.Set(true); return nil, ErrServiceOverloaded.
\* loc[t].dt is the clock reading this call stored in dropTime.
Allow_droppedRecently(t) ==
    /\ pc[t] = "setLatch"
    /\ droppedRecently' = TRUE
    /\ shedTime' = Max(shedTime, loc[t].dt)
    /\ Goto(t, "idle", NoLocals)
    /\ UNCHANGED <<now, rwVars, extraVars, completed, cpu, windows, flying, avgFlying, dropTime,
                   passCounter, rtCounter, promises, calls>>

\* A faulty addFlying(1): the atomic add is lost.
addFlyingLost(t) ==
    /\ pc[t] = "admit"
    /\ Goto(t, "promise", NoLocals)
    /\ UNCHANGED <<now, rwVars, extraVars, completed, cpu, windows, flying, avgFlying, dropTime,
                   droppedRecently, passCounter, rtCounter, promises, shedTime, calls>>

\* A faulty addFlying(1): the smoother is updated on the increment too.
addFlyingSmoothed(t) ==
    /\ pc[t] = "admit"
    /\ flying' = flying + 1
    /\ avgFlying' = avgAfterDecrement(avgFlying, flying + 1)
    /\ Goto(t, "promise", NoLocals)
    /\ UNCHANGED <<now, rwVars, extraVars, completed, cpu, windows, dropTime,
                   droppedRecently, passCounter, rtCounter, promises, shedTime, calls>>

\* Allow: as.addFlying(1): atomic.AddInt64(&as.flying, 1), avgFlying untouched
Allow_addFlying(t) ==
    /\ pc[t] = "admit"
    /\ flying' = flying + 1
    /\ Goto(t, "promise", NoLocals)
    /\ UNCHANGED <<now, rwVars, extraVars, completed, cpu, windows, avgFlying, dropTime,
                   droppedRecently, passCounter, rtCounter, promises, shedTime, calls>>

\* Allow: return &promise{start: timex.Now(), shedder: as}, nil
Allow_promise(t) ==
    /\ pc[t] = "promise"
    /\ promises' = Append(promises, now)
    /\ Goto(t, "idle", NoLocals)
    /\ UNCHANGED <<now, rwVars, extraVars, completed, cpu, windows, flying, avgFlying, dropTime,
                   droppedRecently, passCounter, rtCounter, shedTime, calls>>

\* Pass, on a promise not completed yet: rt := float64(timex.Since(p.start)) / float64(time.Millisecond)
Pass_Since(t, b) ==
    /\ shedder = "adaptive"
    /\ pc[t] = "idle"
    /\ PassRoom(b.count)
    /\ Called(b)
    /\ \E s \in Starts :
         /\ promises' = Without(s)
         /\ Goto(t, "passDec", [NoLocals EXCEPT !.rt = passRt(s, now)])
    /\ completed' = TRUE
    /\ UNCHANGED <<now, rwVars, extraVars, cpu, windows, flying, avgFlying, dropTime,
                   droppedRecently, passCounter, rtCounter, shedTime>>

\* Pass: p.shedder.addFlying(-1): flying := atomic.AddInt64(&as.flying, -1)
Pass_addFlying(t) ==
    /\ pc[t] = "passDec"
    /\ flying' = flying - 1
    /\ Goto(t, "passAvg", [loc[t] EXCEPT !.fl = flying - 1])
    /\ UNCHANGED <<now, rwVars, extraVars, completed, cpu, windows, avgFlying, dropTime,
                   droppedRecently, passCounter, rtCounter, promises, shedTime, calls>>

\* Fail, on a promise not completed yet: p.shedder.addFlying(-1):
\* flying := atomic.AddInt64(&as.flying, -1)
Fail_addFlying(t, b) ==
    /\ shedder = "adaptive"
    /\ pc[t] = "idle"
    /\ Called(b)
    /\ \E s \in Starts : promises' = Without(s)
    /\ flying' = flying - 1
    /\ Goto(t, "failAvg", [NoLocals EXCEPT !.fl = flying - 1])
    /\ completed' = TRUE
    /\ UNCHANGED <<now, rwVars, extraVars, cpu, windows, avgFlying, dropTime,
                   droppedRecently, passCounter, rtCounter, shedTime>>

\* A faulty completion: the failed request is counted in passCounter too.
addFlying_avgFlyingCounted(t) ==
    /\ pc[t] \in {"passAvg", "failAvg"}
    /\ avgFlying' = avgAfterDecrement(avgFlying, loc[t].fl)
    /\ passCounter' = IF pc[t] = "failAvg" THEN Add(passCounter, 1, now) ELSE passCounter
    /\ IF pc[t] = "passAvg" THEN Goto(t, "rtAdd", [loc[t] EXCEPT !.fl = 0])
       ELSE Goto(t, "idle", NoLocals)
    /\ UNCHANGED <<now, rwVars, extraVars, completed, cpu, windows, flying, dropTime,
                   droppedRecently, rtCounter, promises, shedTime, calls>>

\* addFlying, delta < 0: as.avgFlying = as.avgFlying*flyingBeta +
\* float64(flying)*(1-flyingBeta), under avgFlyingLock
addFlying_avgFlying(t) ==
    /\ pc[t] \in {"passAvg", "failAvg"}
    /\ avgFlying' = avgAfterDecrement(avgFlying, loc[t].fl)
    /\ IF pc[t] = "passAvg" THEN Goto(t, "rtAdd", [loc[t] EXCEPT !.fl = 0])
       ELSE Goto(t, "idle", NoLocals)
    /\ UNCHANGED <<now, rwVars, extraVars, completed, cpu, windows, flying, dropTime,
                   droppedRecently, passCounter, rtCounter, promises, shedTime, calls>>

\* Pass: p.shedder.rtCounter.Add(math.Ceil(rt))
Pass_rtCounter(t) ==
    /\ pc[t] = "rtAdd"
    /\ rtCounter' = Add(rtCounter, loc[t].rt, now)
    /\ Goto(t, "passAdd", NoLocals)
    /\ UNCHANGED <<now, rwVars, extraVars, completed, cpu, windows, flying, avgFlying, dropTime,
                   droppedRecently, passCounter, promises, shedTime, calls>>

\* Pass: p.shedder.passCounter.Add(1)
Pass_passCounter(t) ==
    /\ pc[t] = "passAdd"
    /\ passCounter' = Add(passCounter, 1, now)
    /\ Goto(t, "idle", NoLocals)
    /\ UNCHANGED <<now, rwVars, extraVars, completed, cpu, windows, flying, avgFlying, dropTime,
                   droppedRecently, rtCounter, promises, shedTime, calls>>

\* The CPU sampler reports another load.
CpuUsage ==
    /\ \E c \in CpuLoads \ {cpu} : cpu' = c
    /\ UNCHANGED <<now, rwVars, extraVars, completed, windows, flying, avgFlying, dropTime,
                   droppedRecently, passCounter, rtCounter, promises, pc, loc, shedTime, calls>>

\* The clock advances.
Tick ==
    /\ \E d \in ShedClockSteps : now + d <= ShedMaxNow /\ now' = now + d
    /\ UNCHANGED <<rwVars, asVars, extraVars>>

\* One step of thread t.
Step(t, b) ==
    \/ Allow_systemOverloaded(t, b)
    \/ stillHot_droppedRecently(t)
    \/ stillHot_dropTime(t)
    \/ stillHot_Since(t)
    \/ stillHot_Set(t)
    \/ highThru_avgFlying(t)
    \/ maxFlight_maxPass(t)
    \/ maxFlight_minRt(t)
    \/ highThru_flying(t)
    \/ shouldDrop_avgFlying(t)
    \/ shouldDrop_maxPass(t)
    \/ shouldDrop_minRt(t)
    \/ Allow_dropTime(t)
    \/ Allow_droppedRecently(t)
    \/ Allow_addFlying(t)
    \/ Allow_promise(t)
    \/ Pass_Since(t, b)
    \/ Pass_addFlying(t)
    \/ Fail_addFlying(t, b)
    \/ addFlying_avgFlying(t)
    \/ Pass_rtCounter(t)
    \/ Pass_passCounter(t)

\* What bounds a run: Allow is not called with more than flying requests in
\* flight; Pass is not called while the current bucket holds count samples;
\* no call is made after calls calls (0: any number).
ConcBounds == [flying |-> MaxCalls, count |-> MaxCalls, calls |-> MaxCalls]

SeqBounds == [flying |-> MaxFlying, count |-> MaxCount, calls |-> 0]

HoldBounds == [flying |-> HoldFlying, count |-> MaxCount, calls |-> 0]

AllIdle == \A t \in Threads : pc[t] = "idle"

\* Threads call Allow, Pass and Fail concurrently; the clock and the CPU load
\* change at any moment.
Next ==
    \/ \E t \in Threads : Step(t, ConcBounds)
    \/ CpuUsage
    \/ Tick

Spec == Init /\ [][Next]_vars

\* One call at a time, each at one clock reading and one CPU load.
NextSeq ==
    \/ \E t \in SeqThreads : Step(t, SeqBounds)
    \/ AllIdle /\ CpuUsage
    \/ AllIdle /\ Tick

SpecSeq == Init /\ [][NextSeq]_vars

\* One call at a time, with up to HoldFlying requests held in flight.
NextHold ==
    \/ \E t \in SeqThreads : Step(t, HoldBounds)
    \/ AllIdle /\ CpuUsage
    \/ AllIdle /\ promises = <<>> /\ Tick

SpecHold == InitHold /\ [][NextHold]_vars

----------------------------------------------------------------------------
(* The kill switch: Disable and NewAdaptiveShedder as calls, on one thread. *)

InitKill ==
    /\ now \in StartTimes
    /\ RWUnused
    /\ NewAdaptiveShedder(Options, [admitted |-> 0, failed |-> 0])
    /\ enabled = TRUE
    /\ shedder = "none"
    /\ locks = NoLocks
    /\ leLastTime = 0
    /\ leThreshold = 0
    /\ leExecuted = <<>>
    /\ lePc = [t \in Threads |-> "idle"]
    /\ leLoc = [t \in Threads |-> [now |-> 0, lastTime |-> 0]]

\* func Disable(): enabled.Set(false)
Disable ==
    /\ enabled' = FALSE
    /\ UNCHANGED <<now, rwVars, asVars, shedder, locks, leVars>>

\* A faulty constructor: it does not look at enabled.
NewShedderAdaptive(n) ==
    /\ shedder = "none"
    /\ shedder' = "adaptive"
    /\ flying' = n.admitted - n.failed
    /\ avgFlying' = afterFails(0, n.admitted, n.admitted - n.failed)
    /\ promises' = [k \in 1 .. n.admitted - n.failed |-> now]
    /\ completed' = (n.failed > 0)
    /\ UNCHANGED <<now, rwVars, enabled, locks, leVars, cpu, windows, dropTime,
                   droppedRecently, passCounter, rtCounter, pc, loc, shedTime, calls>>

\* func NewAdaptiveShedder: if !enabled.True() { return newNopShedder() }, else
\* the adaptive shedder, then the burst n on it before the clock moves.
NewShedder(n) ==
    /\ shedder = "none"
    /\ IF enabled
       THEN /\ shedder' = "adaptive"
            /\ flying' = n.admitted - n.failed
            /\ avgFlying' = afterFails(0, n.admitted, n.admitted - n.failed)
            /\ promises' = [k \in 1 .. n.admitted - n.failed |-> now]
            /\ completed' = (n.failed > 0)
       ELSE /\ shedder' = "nop"
            /\ UNCHANGED <<flying, avgFlying, promises, completed>>
    /\ UNCHANGED <<now, rwVars, enabled, locks, leVars, cpu, windows, dropTime,
                   droppedRecently, passCounter, rtCounter, pc, loc, shedTime, calls>>

\* The no-op shedder's Allow: it returns a promise and no error.
Nop_Allow(b) ==
    /\ shedder = "nop"
    /\ Len(promises) < b.flying
    /\ Called(b)
    /\ promises' = Append(promises, now)
    /\ UNCHANGED <<now, rwVars, extraVars, completed, cpu, windows, flying, avgFlying,
                   dropTime, droppedRecently, passCounter, rtCounter, pc, loc, shedTime>>

\* The no-op promise's Pass and Fail: they do nothing.
Nop_Pass(b) ==
    /\ shedder = "nop"
    /\ Called(b)
    /\ \E s \in Starts : promises' = Without(s)
    /\ UNCHANGED <<now, rwVars, extraVars, completed, cpu, windows, flying, avgFlying,
                   dropTime, droppedRecently, passCounter, rtCounter, pc, loc, shedTime>>

Nop_Fail(b) ==
    /\ shedder = "nop"
    /\ Called(b)
    /\ \E s \in Starts : promises' = Without(s)
    /\ UNCHANGED <<now, rwVars, extraVars, completed, cpu, windows, flying, avgFlying,
                   dropTime, droppedRecently, passCounter, rtCounter, pc, loc, shedTime>>

KillBounds == [flying |-> MaxFlying, count |-> MaxCount, calls |-> MaxCalls]

NextKill ==
    \/ AllIdle /\ Disable
    \/ \E n \in Bursts : NewShedder(n)
    \/ \E t \in SeqThreads : Step(t, KillBounds)
    \/ Nop_Allow(KillBounds)
    \/ Nop_Pass(KillBounds)
    \/ Nop_Fail(KillBounds)
    \/ AllIdle /\ CpuUsage
    \/ AllIdle /\ Tick

SpecKill == InitKill /\ [][NextKill]_vars

----------------------------------------------------------------------------
(* core/executors/lessexecutor.go: DoOrDiscard called from any thread, one *)
(* action per access to lastTime.                                          *)

\* The thresholds LessExecutors are built with (ms).
LEThresholds == {500}

\* func NewLessExecutor(threshold)
InitLE ==
    /\ now \in StartTimes
    /\ RWUnused
    /\ NewAdaptiveShedder(Options, [admitted |-> 0, failed |-> 0])
    /\ enabled = TRUE
    /\ shedder = "adaptive"
    /\ locks = NoLocks
    /\ leThreshold \in LEThresholds
    /\ leLastTime = 0
    /\ leExecuted = <<>>
    /\ lePc = [t \in Threads |-> "idle"]
    /\ leLoc = [t \in Threads |-> [now |-> 0, lastTime |-> 0]]

\* DoOrDiscard: now := timex.Now()
DoOrDiscard_Now(t) ==
    /\ lePc[t] = "idle"
    /\ lePc' = [lePc EXCEPT ![t] = "load"]
    /\ leLoc' = [leLoc EXCEPT ![t] = [now |-> now, lastTime |-> 0]]
    /\ UNCHANGED <<now, rwVars, asVars, killVars, locks, leLastTime, leThreshold, leExecuted>>

\* DoOrDiscard: lastTime := le.lastTime.Load();
\* if lastTime == 0 || lastTime+le.threshold < now { ... } return false
DoOrDiscard_Load(t) ==
    /\ lePc[t] = "load"
    /\ IF leLastTime = 0 \/ leLastTime + leThreshold < leLoc[t].now
       THEN /\ lePc' = [lePc EXCEPT ![t] = "set"]
            /\ leLoc' = [leLoc EXCEPT ![t].lastTime = leLastTime]
       ELSE /\ lePc' = [lePc EXCEPT ![t] = "idle"]
            /\ leLoc' = [leLoc EXCEPT ![t] = [now |-> 0, lastTime |-> 0]]
    /\ UNCHANGED <<now, rwVars, asVars, killVars, locks, leLastTime, leThreshold, leExecuted>>

\* DoOrDiscard: le.lastTime.Set(now)
DoOrDiscard_Set(t) ==
    /\ lePc[t] = "set"
    /\ leLastTime' = leLoc[t].now
    /\ lePc' = [lePc EXCEPT ![t] = "execute"]
    /\ UNCHANGED <<now, rwVars, asVars, killVars, locks, leThreshold, leExecuted, leLoc>>

\* DoOrDiscard: execute(); return true.  The execution is recorded with the
\* clock reading its call took.
DoOrDiscard_execute(t) ==
    /\ lePc[t] = "execute"
    /\ leExecuted' = Append(leExecuted, leLoc[t].now)
    /\ lePc' = [lePc EXCEPT ![t] = "idle"]
    /\ leLoc' = [leLoc EXCEPT ![t] = [now |-> 0, lastTime |-> 0]]
    /\ UNCHANGED <<now, rwVars, asVars, killVars, locks, leLastTime, leThreshold>>

NextLE ==
    \/ \E t \in Threads :
        \/ DoOrDiscard_Now(t)
        \/ DoOrDiscard_Load(t)
        \/ DoOrDiscard_Set(t)
        \/ DoOrDiscard_execute(t)
    \/ Tick

SpecLE == InitLE /\ [][NextLE]_vars

----------------------------------------------------------------------------
(* The shedder's locks taken step by step: before the step at a critical   *)
(* section a thread acquires the section's lock (Lock, RLock), and after   *)
(* it the thread releases it (Unlock, RUnlock, also the deferred ones)     *)
(* before anything else.  The spin lock is exclusive; a RollingWindow's    *)
(* sync.RWMutex admits one writer or any number of readers.                *)
LockNames == {"avgFlyingLock", "passCounter", "rtCounter"}

\* A faulty highThru that releases avgFlyingLock only after maxFlight().
HoldsAcrossMaxFlight(p) ==
    CASE p \in {"highThru", "msgAvg", "passAvg", "failAvg"} -> {<<"avgFlyingLock", "w">>}
      [] p = "maxPass" -> {<<"avgFlyingLock", "w">>, <<"passCounter", "r">>}
      [] p = "minRt" -> {<<"avgFlyingLock", "w">>, <<"rtCounter", "r">>}
      [] p = "msgMaxPass" -> {<<"passCounter", "r">>}
      [] p = "msgMinRt" -> {<<"rtCounter", "r">>}
      [] p = "rtAdd" -> {<<"rtCounter", "w">>}
      [] p = "passAdd" -> {<<"passCounter", "w">>}
      [] OTHER -> {}

\* The locks the code holds while it executes the step at p, each with its
\* mode: "w" for Lock, "r" for RLock.
Holds(p) ==
    CASE p \in {"highThru", "msgAvg", "passAvg", "failAvg"} -> {<<"avgFlyingLock", "w">>}
      [] p \in {"maxPass", "msgMaxPass"} -> {<<"passCounter", "r">>}
      [] p \in {"minRt", "msgMinRt"} -> {<<"rtCounter", "r">>}
      [] p = "rtAdd" -> {<<"rtCounter", "w">>}
      [] p = "passAdd" -> {<<"passCounter", "w">>}
      [] OTHER -> {}

\* the locks t holds, with their modes
Held(t) == {x \in LockNames \X {"r", "w"} : <<t, x[2]>> \in locks[x[1]]}

\* the locks t has yet to acquire for its next step
Wants(t) == Holds(pc[t]) \ Held(t)

\* the locks t holds and has yet to release after its last step
Stale(t) == Held(t) \ Holds(pc[t])

\* the locks t is acquiring: its next step is a Lock or RLock of one of them
Acquiring(t) == IF Stale(t) = {} THEN Wants(t) ELSE {}

\* Lock succeeds when nobody holds the lock, RLock when no writer does.
Free(l, m) ==
    IF m = "w" THEN locks[l] = {} ELSE \A h \in locks[l] : h[2] = "r"

Lock(t) ==
    /\ \E x \in Acquiring(t) :
         /\ Free(x[1], x[2])
         /\ locks' = [locks EXCEPT ![x[1]] = @ \cup {<<t, x[2]>>}]
    /\ UNCHANGED <<now, rwVars, asVars, killVars, leVars>>

Unlock(t) ==
    /\ \E x \in Stale(t) :
         locks' = [locks EXCEPT ![x[1]] = @ \ {<<t, x[2]>>}]
    /\ UNCHANGED <<now, rwVars, asVars, killVars, leVars>>

\* A step of a call, between the Lock and the Unlock around it if it is a
\* critical section.
Body(t, b) ==
    /\ Wants(t) = {}
    /\ Stale(t) = {}
    /\ Step(t, b)

LockCalls == 2

LockBounds == [flying |-> LockCalls, count |-> LockCalls, calls |-> LockCalls]

LockStep(t) ==
    \/ Lock(t)
    \/ Body(t, LockBounds)
    \/ Unlock(t)

\* Which locks a call takes depends on the clock and the CPU load only
\* through what the call reads of them, so they change between calls here.
NextLock ==
    \/ \E t \in Threads : LockStep(t)
    \/ AllIdle /\ CpuUsage
    \/ AllIdle /\ Tick

\* Every thread that can take a step eventually takes one.
SpecLock ==
    /\ Init
    /\ [][NextLock]_vars
    /\ \A t \in Threads : WF_vars(LockStep(t))

----------------------------------------------------------------------------
(* Claims about the stand-alone rolling window (checked under SpecRW).     *)

\* The span the specification gives: min(floor((now - lastTime) / interval), size).
SpecSpan == Min((now - rw.lastTime) \div rw.interval, rw.size)

\* The buckets offset+1 .. offset+s (mod size): the ones s elapsed intervals expired.
ExpiredBuckets(s) == {(rw.offset + j) % rw.size : j \in 1 .. s}

\* C7 (as claimed): every bucket a Reduce passes to fn holds only samples added
\* no more than size * interval before that Reduce call.
C7_NoStaleBucketObserved ==
    rwRed.called =>
        \A k \in 1 .. Len(rwRed.visited) :
            \/ rwAdded[rwRed.visited[k]] = -1
            \/ now - rwAdded[rwRed.visited[k]] <= rw.size * rw.interval

\* C8: with s the span, a Reduce under ignoreCurrent and s = 0 calls fn on exactly
\* size - 1 distinct buckets, none of them the one at offset; otherwise on exactly
\* size - s distinct buckets, the first at (offset + s + 1) mod size and none of
\* them among offset+1 .. offset+s; and on no bucket once size * interval has
\* passed since lastTime.
C8_ReduceVisits ==
    rwRed.called =>
        LET s == SpecSpan
            visited == rwRed.visited
            seen == {visited[k] : k \in 1 .. Len(visited)}
        IN  /\ Cardinality(seen) = Len(visited)
            /\ IF rw.ignoreCurrent /\ s = 0
               THEN /\ Len(visited) = rw.size - 1
                    /\ rw.offset \notin seen
               ELSE /\ Len(visited) = rw.size - s
                    /\ Len(visited) > 0 => visited[1] = (rw.offset + s + 1) % rw.size
            /\ seen \cap ExpiredBuckets(s) = {}
            /\ now - rw.lastTime >= rw.size * rw.interval => visited = <<>>

\* C8's case: a Reduce over a window in which some, but not all, buckets have
\* expired and an expired bucket still holds samples.
C8_Witness ==
    /\ rwRed.called
    /\ SpecSpan > 0 /\ SpecSpan < rw.size
    /\ Len(rwRed.visited) = rw.size - SpecSpan
    /\ \E i \in ExpiredBuckets(SpecSpan) : rw.win[i].Count > 0

----------------------------------------------------------------------------
(* Claims about the shedder.                                               *)

\* What stillHot() returns when evaluated in the current state.
StillHot ==
    droppedRecently /\ dropTime # 0 /\ now - dropTime < coolOffDuration

\* What maxPass(), minRt() and maxFlight() return in the current state.
MaxPassNow == maxPass(passCounter, now)

MinRtNow == minRt(rtCounter, now)

MaxFlightNow == maxFlight(MaxPassNow, windows, MinRtNow)

\* Thread t is in an Allow whose shouldDrop() has just decided to drop, or to admit.
Dropping(t) == pc[t] = "msgAvg"

Admitting(t) == pc[t] = "admit"

\* C1: under SpecSeq, shouldDrop() decides to drop only if the CPU load is at or
\* above cpuThreshold or droppedRecently is set, and the latter only after an
\* earlier Allow shed; so with the CPU below the threshold and the latch clear
\* Allow admits, whatever flying, avgFlying, maxPass and minRt are.
C1_AdmitsWhenCold ==
    \A t \in Threads :
        Dropping(t) =>
            \/ cpu >= defaultCpuThreshold
            \/ droppedRecently /\ shedTime >= 0

\* C1's case: an Allow admits with the CPU low and the latch clear although
\* flying and avgFlying are both above maxFlight.
C1_Witness ==
    \E t \in Threads :
        /\ Admitting(t)
        /\ cpu < defaultCpuThreshold /\ ~droppedRecently
        /\ flying > MaxFlightNow /\ int64Avg(avgFlying) > MaxFlightNow

\* The condition the specification gives for a shed.
SpecShouldDrop ==
    /\ cpu >= defaultCpuThreshold \/ StillHot
    /\ int64Avg(avgFlying) > MaxFlightNow
    /\ flying > MaxFlightNow

\* C2: under SpecSeq, Allow sheds if and only if (CPU load >= cpuThreshold or
\* stillHot()) and int64(avgFlying) > maxFlight and flying > maxFlight.
C2_ShedsIffPressureAndSaturation ==
    \A t \in Threads :
        /\ Dropping(t) => SpecShouldDrop
        /\ Admitting(t) => ~SpecShouldDrop

\* C2's case: a shed in the Hot state, with the CPU below the threshold.
C2_Witness ==
    \E t \in Threads : Dropping(t) /\ cpu < defaultCpuThreshold /\ StillHot

\* The scenario of C3: CPU load 950, maxFlight 2, flying held at 10 by 10
\* admitted requests that have not been completed.
HeldAtTen ==
    /\ cpu = 950
    /\ MaxFlightNow = 2
    /\ flying = 10
    /\ Len(promises) = 10

\* C3 (as claimed): in that scenario the 11th Allow sheds.
C3_EleventhAllowSheds ==
    \A t \in Threads : HeldAtTen => ~Admitting(t)

\* C3 (amended): in that scenario the 11th Allow sheds if and only if
\* int64(avgFlying) > 2.
C3_EleventhAllowShedsIffAvgHigh ==
    \A t \in Threads :
        HeldAtTen =>
            /\ Admitting(t) => int64Avg(avgFlying) <= 2
            /\ Dropping(t) => int64Avg(avgFlying) > 2

\* C3's case: the 11th Allow sheds.
C3_Witness ==
    \E t \in Threads : HeldAtTen /\ Dropping(t)

\* C4 (as claimed): for coolOffDuration after an Allow returned
\* ErrServiceOverloaded, droppedRecently is set and stillHot() evaluates to true.
C4_HotForCoolOff ==
    (shedTime >= 0 /\ now - shedTime < coolOffDuration) => StillHot

\* Thread t is in an Allow that did not shed and is about to return its promise.
Returning(t) == pc[t] = "promise"

\* The latest shed is at least coolOffDuration ago.
CooledOff == shedTime >= 0 /\ now - shedTime >= coolOffDuration

\* C5 (as claimed): under SpecSeq, an Allow made coolOffDuration or more after
\* the latest shed and not shedding itself returns with droppedRecently false.
C5_ColdAfterCoolOff ==
    \A t \in Threads : (Returning(t) /\ CooledOff) => ~droppedRecently

\* C5 (amended): the same, for a CPU load below cpuThreshold at that call.
C5_ColdAfterCoolOffLowCpu ==
    \A t \in Threads :
        (Returning(t) /\ CooledOff /\ cpu < defaultCpuThreshold) => ~droppedRecently

\* C5's case: such an Allow returns, on a shedder that shed before.
C5_Witness ==
    \E t \in Threads :
        /\ Returning(t) /\ CooledOff /\ cpu < defaultCpuThreshold
        /\ ~droppedRecently /\ dropTime = shedTime

\* The requests admitted and not completed: the promises nobody completed, those
\* Allow has counted and not returned yet, those Pass is about to count off.
Outstanding ==
    Len(promises) + Cardinality({t \in Threads : pc[t] \in {"promise", "passDec"}})

\* C6: in every interleaving, flying is never negative and equals the number of
\* admitted and not completed requests; no step of an Allow but its addFlying(1)
\* changes flying, so an Allow that sheds leaves it alone.
C6_FlyingCountsOutstanding ==
    [][/\ flying' >= 0
       /\ flying' = Outstanding'
       /\ \A t \in Threads :
            (pc'[t] # pc[t] /\ pc[t] # "admit" /\
             (pc[t] \in AllowPcs \/ pc'[t] \in AllowPcs)) => flying' = flying]_vars

\* C6's case: one thread is in Pass, about to count its request off, while the
\* other is in Allow and has counted its request in.
C6_Witness ==
    \E t, u \in Threads :
        pc[t] = "passDec" /\ pc[u] = "promise" /\ flying = Len(promises) + 2

\* No Pass was called so far: Pass leaves a sample in each counter for good.
NoPassSoFar ==
    /\ \A i \in 0 .. passCounter.size - 1 : passCounter.win[i] = EmptyBucket
    /\ \A i \in 0 .. rtCounter.size - 1 : rtCounter.win[i] = EmptyBucket
    /\ \A t \in Threads : pc[t] \notin {"passDec", "passAvg", "rtAdd", "passAdd"}

\* C9: a step of Fail changes flying (by -1) or avgFlying and nothing else of the
\* shedder; and as long as no Pass was called maxPass() is 1 and minRt() is
\* defaultMinRt.
C9_FailLeavesCounters ==
    [][/\ \A t \in Threads :
            (pc'[t] # pc[t] /\ (pc[t] = "failAvg" \/ pc'[t] = "failAvg")) =>
                /\ UNCHANGED <<passCounter, rtCounter, dropTime, droppedRecently>>
                /\ flying' = IF pc'[t] = "failAvg" THEN flying - 1 ELSE flying
       /\ NoPassSoFar' => (MaxPassNow' = 1 /\ MinRtNow' = defaultMinRt)]_vars

\* C9's case: both requests in flight have failed and avgFlying has moved.
C9_Witness ==
    /\ AllIdle /\ NoPassSoFar
    /\ calls = 2 /\ flying = 0 /\ promises = <<>>
    /\ avgFlying # afterFails(0, 10, 2)

\* The buckets of rtCounter a Reduce visits now that hold samples.
RtSamples ==
    LET visited == Reduce(rtCounter, now)
    IN  {i \in {visited[k] : k \in 1 .. Len(visited)} : rtCounter.win[i].Count > 0}

\* The rounded average of bucket i of rtCounter.
RtAverage(i) == Round(rtCounter.win[i].Sum, rtCounter.win[i].Count)

\* C10 (as claimed): minRt() is at least defaultMinRt, and exactly defaultMinRt
\* when no visited bucket of rtCounter has Count > 0.
C10_MinRtAtLeastDefault ==
    LET m == MinRtNow
    IN  /\ m >= defaultMinRt
        /\ RtSamples = {} => m = defaultMinRt

\* C10 (amended): minRt() is at most defaultMinRt: it is the least of
\* defaultMinRt and the rounded averages of the visited buckets with Count > 0,
\* and exactly defaultMinRt when there is no such bucket.
C10_MinRtAtMostDefault ==
    LET m == MinRtNow
        samples == RtSamples
    IN  /\ m <= defaultMinRt
        /\ samples = {} => m = defaultMinRt
        /\ \A i \in samples : m <= RtAverage(i)
        /\ m < defaultMinRt => \E i \in samples : m = RtAverage(i)

\* C10's case: a visited bucket holds response times below defaultMinRt.
C10_Witness ==
    MinRtNow < defaultMinRt /\ RtSamples # {}

\* new is beta * avg + (1 - beta) * fl with beta = 0.9, to the nearest unit of
\* avgFlying.
Smoothed(avg, fl, new) ==
    LET exact == flyingBetaTenths * avg + (10 - flyingBetaTenths) * AvgScale * fl
    IN  10 * new - 5 <= exact /\ exact < 10 * new + 5

\* Thread t takes the step that completes addFlying(-1).
Decrementing(t) == pc[t] \in {"passAvg", "failAvg"} /\ pc'[t] # pc[t]

\* C11: in every interleaving, avgFlying changes only in the step of a Pass or
\* Fail that follows its decrement of flying, which sets it to
\* 0.9 * avgFlying + 0.1 * (flying after that decrement); Allow's addFlying(1)
\* adds 1 to flying and leaves avgFlying alone; and as long as no Pass or Fail
\* was called avgFlying is 0.
C11_AvgFlyingMovesOnDecrementOnly ==
    [][/\ avgFlying' # avgFlying => \E t \in Threads : Decrementing(t)
       /\ \A t \in Threads : Decrementing(t) => Smoothed(avgFlying, loc[t].fl, avgFlying')
       /\ \A t \in Threads :
            (pc[t] = "admit" /\ pc'[t] # pc[t]) =>
                (flying' = flying + 1 /\ avgFlying' = avgFlying)
       /\ ~completed' => avgFlying' = 0]_vars

\* C11's case: three admissions and no completion.
C11_Witness ==
    ~completed /\ flying = 3 /\ Len(promises) = 3 /\ avgFlying = 0

\* C12: NewAdaptiveShedder returns the no-op shedder exactly when Disable was
\* called before it; enabled, once cleared, stays cleared, and a Disable changes
\* nothing else; on the no-op shedder no call changes any field of the shedder
\* and no Allow sheds; the adaptive shedder decides by shouldDrop()'s condition
\* whether or not Disable was called after its construction.
C12_KillSwitchAtConstruction ==
    [][/\ (shedder = "none" /\ shedder' # "none") =>
            shedder' = IF enabled THEN "adaptive" ELSE "nop"
       /\ shedder # "none" => shedder' = shedder
       /\ ~enabled => ~enabled'
       /\ enabled' # enabled => UNCHANGED <<now, rwVars, asVars, shedder>>
       /\ shedder = "nop" =>
            /\ UNCHANGED <<flying, avgFlying, dropTime, droppedRecently,
                           passCounter, rtCounter, pc>>
            /\ shedTime' = -1
       /\ shedder' = "adaptive" =>
            \A t \in Threads :
                /\ Dropping(t)' => SpecShouldDrop'
                /\ Admitting(t)' => ~SpecShouldDrop']_vars

\* C12's case: the no-op shedder has admitted two requests at CPU load 950.
C12_Witness ==
    shedder = "nop" /\ ~enabled /\ cpu = 950 /\ Len(promises) = 2

\* C13: in every reachable state, with no samples or with expired windows as
\* well, maxPass() and maxFlight() return at least 1, and so do the values an
\* Allow in progress has got from them.
C13_MaxPassAndMaxFlightAtLeastOne ==
    /\ MaxPassNow >= 1
    /\ MaxFlightNow >= 1
    /\ \A t \in Threads :
        /\ pc[t] = "minRt" => loc[t].mp >= 1
        /\ pc[t] = "loadFlying" => loc[t].mf >= 1

\* C13's case: the response times recorded make maxPass * windows * minRt / 1000
\* less than 1, and maxFlight() is 1.
C13_Witness ==
    /\ \E i \in RtSamples : RtAverage(i) = 0
    /\ MaxPassNow * windows * MinRtNow < 1000
    /\ MaxFlightNow = 1

\* C14: an Add(v) at span s = 0 adds v to the Sum and 1 to the Count of the
\* bucket at offset and changes nothing else; at s > 0 it empties the buckets
\* offset+1 .. offset+s (mod size), leaves the others as they are, moves offset
\* to (offset + s) mod size, sets lastTime to the clock reading, and leaves the
\* bucket at the new offset with Sum = v and Count = 1.
C14_AddResetsExpiredBuckets ==
    [][rw' # rw =>
        \E v \in AddValues :
            IF SpecSpan = 0
            THEN rw' = [rw EXCEPT !.win[rw.offset] =
                            [Sum |-> rw.win[rw.offset].Sum + v,
                             Count |-> rw.win[rw.offset].Count + 1]]
            ELSE /\ rw'.offset = (rw.offset + SpecSpan) % rw.size
                 /\ rw'.lastTime = now
                 /\ rw'.size = rw.size
                 /\ rw'.interval = rw.interval
                 /\ rw'.ignoreCurrent = rw.ignoreCurrent
                 /\ DOMAIN rw'.win = DOMAIN rw.win
                 /\ \A i \in DOMAIN rw.win :
                        rw'.win[i] =
                            IF i = (rw.offset + SpecSpan) % rw.size
                            THEN [Sum |-> v, Count |-> 1]
                            ELSE IF i \in ExpiredBuckets(SpecSpan) THEN EmptyBucket
                            ELSE rw.win[i]]_vars

\* C14's case: an Add has just wrapped round the ring of a window of three
\* buckets to bucket 0, and a bucket that had not expired keeps its samples.
C14_Witness ==
    /\ rw.size = 3 /\ rw.offset = 0
    /\ rw.lastTime = now /\ rwAdded[0] = now /\ now > 250
    /\ rw.win[0].Count = 1
    /\ \E i \in 1 .. 2 : rw.win[i].Count > 0

\* C15: a Reduce call, at any clock reading and any span, leaves offset, lastTime
\* and every bucket of the window as they were.
C15_ReduceReadsOnly ==
    [][rwRed'.called => rw' = rw]_vars

\* C15's case: a Reduce was called with every bucket expired, and a bucket
\* still holds its samples.
C15_Witness ==
    /\ rwRed.called
    /\ SpecSpan = rw.size
    /\ rwRed.visited = <<>>
    /\ \E i \in DOMAIN rw.win : rw.win[i].Count > 0

\* C17: in every state of a rolling window offset is in 0 .. size - 1 and the
\* window holds the buckets 0 .. size - 1, size never changes, and lastTime
\* never decreases nor passes the clock.
C17_OffsetInRangeLastTimeMonotone ==
    [][/\ rw'.offset \in 0 .. rw'.size - 1
       /\ DOMAIN rw'.win = 0 .. rw'.size - 1
       /\ rw'.size = rw.size
       /\ rw'.lastTime >= rw.lastTime
       /\ rw'.lastTime <= now']_vars

\* C17's case: offset has moved to the last bucket, and the window has then been
\* idle for size * interval or more.
C17_Witness ==
    /\ rw.size > 1
    /\ rw.offset = rw.size - 1
    /\ rw.lastTime > 250
    /\ now - rw.lastTime >= rw.size * rw.interval

\* C20: in every interleaving, with clock readings above 0, droppedRecently is
\* set only when dropTime is not 0, and a stillHot() that found the latch set
\* does not load a zero dropTime.
C20_LatchImpliesDropTime ==
    /\ droppedRecently => dropTime # 0
    /\ \A t \in Threads : pc[t] = "hotLoad" => dropTime # 0

\* C20's case: one thread is in stillHot() and has found the latch set while
\* another, shedding, has stored dropTime and not yet set the latch.
C20_Witness ==
    \E t, u \in Threads :
        pc[t] = "hotLoad" /\ pc[u] = "setLatch" /\ droppedRecently /\ now > 0

\* C19: as long as no Pass or Fail was called on the shedder, avgFlying is 0 and
\* no Allow sheds or has shed, at any CPU load and with any number of requests
\* in flight.
C19_NoShedBeforeFirstCompletion ==
    ~completed =>
        /\ avgFlying = 0
        /\ shedTime = -1 /\ dropTime = 0 /\ ~droppedRecently
        /\ \A t \in Threads :
            ~Dropping(t) /\ pc[t] \notin {"loadFlying", "setDropTime", "setLatch"}

\* C19's case: with no Pass or Fail so far, ten requests in flight and the CPU
\* load at 950, an Allow admits.
C19_Witness ==
    \E t \in Threads :
        ~completed /\ cpu = 950 /\ flying = 10 /\ flying > MaxFlightNow /\ Admitting(t)

\* C18 (as claimed): the calls of DoOrDiscard that run execute, concurrent ones
\* included, are more than threshold apart.
C18_ExecutionsMoreThanThresholdApart ==
    \A i, j \in 1 .. Len(leExecuted) :
        i < j => leExecuted[j] - leExecuted[i] > leThreshold

----------------------------------------------------------------------------
(* Claims about the shedder's locks (checked under SpecLock).              *)
\* a call of t is under way: it has started and has not returned, or has
\* yet to run a deferred unlock
InCall(t) == pc[t] # "idle" \/ Held(t) # {}

\* C16: a thread holds at most one of avgFlyingLock and the two
\* RollingWindow locks at a time and acquires none of them while it holds
\* another, and every call of Allow, Pass or Fail that has started returns
\* with no lock held, provided every thread that can take a step eventually
\* takes one (so no set of concurrent calls deadlocks).
C16_NoNestedLocksAndCallsReturn ==
    /\ [](\A t \in Threads :
            /\ Cardinality(Held(t)) <= 1
            /\ Held(t) # {} => Acquiring(t) = {})
    /\ \A t \in Threads : InCall(t) ~> ~InCall(t)

\* One thread waits for avgFlyingLock while the other holds it.
C16_Witness ==
    \E t \in Threads, u \in Threads :
        /\ t # u
        /\ Held(t) = {<<"avgFlyingLock", "w">>}
        /\ Acquiring(u) = {<<"avgFlyingLock", "w">>}
        /\ Held(u) = {}

=============================================================================
